---- MODULE Spec2Model ----
(***************************************************************************)
(* Model of the aggregation pipeline of contaix:                           *)
(*   contaix/aggregation.py  aggregate_store                               *)
(*   contaix/code.py         resolve_code_source_dir_path,                 *)
(*                           resolve_code_source, code_aggregate           *)
(*   contaix/urls.py         download_articles                             *)
(* Python strings are sequences of one-character strings (a replacement    *)
(* field of a format template is one token).  A store (a Mapping) is a     *)
(* sequence of [k, v] pairs with pairwise distinct keys, in iteration      *)
(* order.  One behaviour is one call: the action draws the arguments and   *)
(* records the call together with everything it returned, raised, wrote    *)
(* or invoked, and (in objects) the state in which the call leaves the     *)
(* objects it was given or resolved.                                       *)
(***************************************************************************)
EXTENDS Integers, Sequences, FiniteSets, TLC

VARIABLES pc, call, out, files, objects

vars == <<pc, call, out, files, objects>>

(***************************************************************************)
(* Bounds of the model.                                                    *)
(***************************************************************************)
MaxStoreLen == 2
MaxCap == 2
MaxChunk == 2
MaxLines == 2

(***************************************************************************)
(* Python values.                                                          *)
(***************************************************************************)
PyNone == [t |-> "None", s |-> <<>>]
PyStr(s) == [t |-> "str", s |-> s]
\* a caller-supplied function f; its result on x is the opaque value f(x)
PyCallable == [t |-> "callable", s |-> <<"f">>]
PyResultOfCallable(x) == [t |-> "f(x)", s |-> x]
\* contaix.util.identity
identity(x) == x
\* the bound method  template.format
PyStrFormat(template) == [t |-> "str.format", s |-> template]

NoOpt == [some |-> FALSE, v |-> 0]
NoSet == [some |-> FALSE, v |-> {}]
Some(x) == [some |-> TRUE, v |-> x]

(***************************************************************************)
(* Strings.                                                                *)
(***************************************************************************)
NL == "\n"
Whitespace == {" ", "\n", "\t"}
MD == <<".", "m", "d">>
PY == <<".", "p", "y">>
\* the backquote character
BQ == "backquote"
FENCE == <<BQ, BQ, BQ>>

endswith(s, suffix) ==
    /\ Len(s) >= Len(suffix)
    /\ SubSeq(s, Len(s) - Len(suffix) + 1, Len(s)) = suffix

RECURSIVE lstrip(_)
lstrip(s) ==
    IF s # <<>> /\ Head(s) \in Whitespace THEN lstrip(Tail(s)) ELSE s

RECURSIVE rstrip(_)
rstrip(s) ==
    IF s # <<>> /\ s[Len(s)] \in Whitespace
    THEN rstrip(SubSeq(s, 1, Len(s) - 1))
    ELSE s

\* str.strip()
strip(s) == rstrip(lstrip(s))

\* v[:n] for n >= 0
prefix(v, n) == SubSeq(v, 1, IF n < Len(v) THEN n ELSE Len(v))

\* sep.join(items)
RECURSIVE join(_, _)
join(sep, items) ==
    IF items = <<>> THEN <<>>
    ELSE IF Len(items) = 1 THEN items[1]
    ELSE items[1] \o sep \o join(sep, Tail(items))

\* the tokens that are replacement fields of a format template
FieldPlain == "{}"
FieldInt == "{:02d}"
FieldFloat == "{:02.0f}"

Digit == <<"1", "2", "3", "4", "5", "6", "7", "8", "9">>
\* str(i) for 0 <= i <= 99
RECURSIVE IntStr(_)
IntStr(i) ==
    IF i = 0 THEN <<"0">>
    ELSE IF i < 10 THEN <<Digit[i]>>
    ELSE IntStr(i \div 10) \o IntStr(i % 10)
PyIntV(i) == [t |-> "int", s |-> IntStr(i)]

Returned(v) == [status |-> "returned", value |-> v, exc |-> "", msg |-> <<>>]
Raised(e, m) == [status |-> "raised", value |-> PyNone, exc |-> e, msg |-> m]

RECURSIVE format_tokens(_, _)
format_tokens(template, arg) ==
    IF template = <<>> THEN <<>>
    ELSE LET tok == Head(template)
             piece == IF tok = FieldPlain THEN arg.s
                      ELSE IF tok \in {FieldInt, FieldFloat}
                           THEN (IF Len(arg.s) < 2 THEN <<"0">> \o arg.s ELSE arg.s)
                           ELSE <<tok>>
         IN piece \o format_tokens(Tail(template), arg)

\* template.format(arg): the codes d and f accept a number, not a str
str_format(template, arg) ==
    IF \E i \in DOMAIN template :
          template[i] \in {FieldInt, FieldFloat} /\ arg.t # "int"
    THEN Raised("ValueError", <<>>)
    ELSE Returned(PyStr(format_tokens(template, arg)))

\* f(arg) for a Python value f
py_call(f, arg) ==
    CASE f.t = "identity" -> Returned(arg)
      [] f.t = "callable" -> Returned(PyResultOfCallable(arg.s))
      [] f.t = "str.format" -> str_format(f.s, arg)
      \* what the caller's function returned is taken to be a sink itself
      [] f.t = "f(x)" -> Returned([t |-> "f(x)(y)", s |-> arg.s])
      [] OTHER -> Raised("TypeError", <<>>)

(***************************************************************************)
(* Stores.                                                                 *)
(***************************************************************************)
README_MD == <<"R", "E", "A", "D", "M", "E">> \o MD
Keys == {<<"a">> \o MD, README_MD, <<"m">> \o PY}
Values == {<<>>, <<" ", "x", " ">>, <<"x", NL, "x">>}

Entry(k, v) == [k |-> k, v |-> v]
Entries == {Entry(k, v) : k \in Keys, v \in Values}
KeysOf(store) == [i \in DOMAIN store |-> store[i].k]
KeySet(store) == {store[i].k : i \in DOMAIN store}

\* the in-memory mappings a caller can pass: dicts of at most MaxStoreLen items
Stores ==
    UNION {{st \in [1..n -> Entries] :
               \A i, j \in 1..n : st[i].k = st[j].k => i = j} :
           n \in 0..MaxStoreLen}

ValueSet(store) == {store[i].v : i \in DOMAIN store}
PairSet(store) == {<<store[i].k, store[i].v>> : i \in DOMAIN store}

\* dol.filt_iter(filt=...)(store): iteration restricted to the keys passing
\* filt, given here as the set of the keys it accepts
filt_iter(store, filt) == SelectSeq(store, LAMBDA e : e.k \in filt)

\* dol.wrap_kvs(value_decoder=...)(store): values decoded on read; the
\* decoder is given as a function on the values of the store
wrap_kvs(store, value_decoder) ==
    [i \in DOMAIN store |-> Entry(store[i].k, value_decoder[store[i].v])]

(***************************************************************************)
(* hg.deduplicate_string_lines(v, min_block_size=n,                        *)
(* return_removed_blocks=False): a block of at least n contiguous lines    *)
(* that repeats an earlier block is removed, the first occurrence is kept. *)
(***************************************************************************)
RECURSIVE split_lines(_)
split_lines(s) ==
    IF \A i \in DOMAIN s : s[i] # NL THEN <<s>>
    ELSE LET i == CHOOSE i \in DOMAIN s :
                     s[i] = NL /\ \A j \in 1..(i - 1) : s[j] # NL
         IN <<SubSeq(s, 1, i - 1)>> \o split_lines(SubSeq(s, i + 1, Len(s)))

RECURSIVE dedup_lines(_, _, _)
dedup_lines(lines, i, n) ==
    IF i > Len(lines) THEN <<>>
    ELSE IF /\ i + n - 1 <= Len(lines)
            /\ \E j \in 1..(i - 1) :
                  /\ j + n - 1 < i
                  /\ SubSeq(lines, j, j + n - 1) = SubSeq(lines, i, i + n - 1)
         THEN dedup_lines(lines, i + n, n)
         ELSE <<lines[i]>> \o dedup_lines(lines, i + 1, n)

deduplicate_string_lines(v, min_block_size) ==
    IF min_block_size < 1 THEN v
    ELSE join(<<NL>>, dedup_lines(split_lines(v), 1, min_block_size))

(***************************************************************************)
(* lkj.chunking.chunk_iterable(store, chk_size): the items of the store,   *)
(* in order, in dicts of chk_size items; the last one may be smaller.      *)
(***************************************************************************)
RECURSIVE chunk_iterable(_, _)
chunk_iterable(store, chk_size) ==
    IF store = <<>> THEN <<>>
    ELSE IF Len(store) <= chk_size THEN <<store>>
    ELSE <<SubSeq(store, 1, chk_size)>>
            \o chunk_iterable(SubSeq(store, chk_size + 1, Len(store)), chk_size)

(***************************************************************************)
(* The file system the calls write to: path -> content, or no file.        *)
(***************************************************************************)
NoFile == [some |-> FALSE, v |-> <<>>]
OUT_MD == <<"o", "u", "t">> \o MD
OldContent == <<"o", "l", "d">>
write_text(fs, path, text) ==
    [p \in DOMAIN fs \cup {path} |-> IF p = path THEN Some(text) ELSE fs[p]]
file_at(fs, path) == IF path \in DOMAIN fs THEN fs[path] ELSE NoFile

(***************************************************************************)
(* dol.store_aggregate(content_store, kv_to_item=..., egress=...):         *)
(* formats every item in iteration order (the formatter is given as a      *)
(* function on the (key, value) pairs), joins the fragments with a blank   *)
(* line and hands the document to the egress: a str is a file path         *)
(* the document is written to, anything else is called with the document.  *)
(* The result of a call is an effect record: what was returned or raised,  *)
(* the stores aggregated, the egress invocations and the file system.     *)
(***************************************************************************)
SEP == <<NL, NL>>

\* the default kv_to_item of dol.store_aggregate
dflt_kv_to_item(k, v) == <<"#", "#", " ">> \o k \o SEP \o v

Effect(r, aggregated, sinks, fs) ==
    [status |-> r.status, value |-> r.value, exc |-> r.exc, msg |-> r.msg,
     aggregated |-> aggregated, sinks |-> sinks, files |-> fs]

\* a kv_to_item of the caller: it raises on the keys of RaisingKeys and gives
\* the text of the default formatter on every other key; KV_RAISED stands for
\* the fragment of an entry on which it raised
KV_ERROR == "ZeroDivisionError"
KV_RAISED == <<KV_ERROR>>
RaisingKeys == {<<"a">> \o MD, <<"b">> \o PY}
KvToItems == {"default", "raising"}
caller_kv_to_item(kv_to_item, k, text) ==
    IF kv_to_item = "raising" /\ k \in RaisingKeys THEN KV_RAISED ELSE text

\* an aggregator that hands each fragment on as it is formatted: the egress
\* gets the fragments formatted before the formatter raised
store_aggregate_streaming(content_store, formatter, egress, fs, returns_path) ==
    LET fragments == [i \in DOMAIN content_store |->
                         formatter[<<content_store[i].k, content_store[i].v>>]]
        bad == {i \in DOMAIN fragments : fragments[i] = KV_RAISED}
        n == IF bad = {} THEN Len(fragments)
             ELSE (CHOOSE i \in bad : \A j \in bad : i <= j) - 1
        aggregate == join(SEP, SubSeq(fragments, 1, n))
        sink == <<[target |-> egress, doc |-> aggregate]>>
        r == IF egress.t = "str"
             THEN Returned(IF returns_path THEN egress ELSE PyStr(aggregate))
             ELSE py_call(egress, PyStr(aggregate))
    IN Effect(IF bad = {} THEN r ELSE Raised(KV_ERROR, <<>>), <<content_store>>,
              sink,
              IF egress.t = "str" THEN write_text(fs, egress.s, aggregate)
              ELSE fs)

store_aggregate(content_store, formatter, egress, fs, returns_path) ==
    LET fragments == [i \in DOMAIN content_store |->
                         formatter[<<content_store[i].k, content_store[i].v>>]]
        aggregate == join(SEP, fragments)
        sink == <<[target |-> egress, doc |-> aggregate]>>
    IN IF \E i \in DOMAIN fragments : fragments[i] = KV_RAISED
       THEN Effect(Raised(KV_ERROR, <<>>), <<content_store>>, <<>>, fs)
       ELSE IF egress.t = "str"
       THEN Effect(Returned(IF returns_path THEN egress ELSE PyStr(aggregate)),
                   <<content_store>>, sink, write_text(fs, egress.s, aggregate))
       ELSE Effect(py_call(egress, PyStr(aggregate)), <<content_store>>, sink, fs)

(***************************************************************************)
(* contaix.aggregation.aggregate_store                                     *)
(***************************************************************************)
DFLT_CHUNK_TEMPLATE ==
    <<"s", "t", "o", "r", "e", "_", "a", "g", "g", "r", "e", "g", "a", "t", "e",
      "_", FieldFloat>> \o MD

\* the wrappers in the other order: the cap applied before the deduplication
store_wrap_cap_first(store, min_number_of_duplicated_lines, max_num_characters, exclude) ==
    LET exclude1 == IF ~exclude.some THEN Some({}) ELSE exclude
        kept == filt_iter(store, {x \in KeySet(store) :
                                     endswith(x, MD) /\ x \notin exclude1.v})
        capped(v) == IF max_num_characters.some
                     THEN prefix(v, max_num_characters.v) ELSE v
    IN [i \in DOMAIN kept |->
           Entry(kept[i].k,
                 IF min_number_of_duplicated_lines.some
                 THEN deduplicate_string_lines(
                          capped(kept[i].v), min_number_of_duplicated_lines.v)
                 ELSE capped(kept[i].v))]

\* lines 30-65: the store handed on to chunking and aggregation
store_wrap(store, min_number_of_duplicated_lines, max_num_characters, exclude) ==
    LET exclude1 == IF ~exclude.some THEN Some({}) ELSE exclude
        n_wrappers == (IF exclude1.some THEN 1 ELSE 0)
                      + (IF max_num_characters.some THEN 1 ELSE 0)
        remove_duplicate_lines(st) ==
            IF min_number_of_duplicated_lines.some
            THEN wrap_kvs(st, [v \in ValueSet(st) |->
                                  deduplicate_string_lines(
                                      v, min_number_of_duplicated_lines.v)])
            ELSE identity(st)
        \* v[:max_num_characters]; v[:None] is v
        capped_num_characters(st) ==
            wrap_kvs(st, [v \in ValueSet(st) |->
                             IF max_num_characters.some
                             THEN prefix(v, max_num_characters.v)
                             ELSE v])
    IN IF n_wrappers > 0
       THEN capped_num_characters(remove_duplicate_lines(
                filt_iter(store, {x \in KeySet(store) :
                                     endswith(x, MD) /\ x \notin exclude1.v})))
       ELSE identity(store)

\* lines 67-73: a str egress becomes its bound format method
egress_callable(egress) ==
    IF egress.t = "str" THEN Returned(PyStrFormat(egress.s))
    ELSE IF egress.t = "None" \/ egress.t = "callable" THEN Returned(egress)
    ELSE Raised("AssertionError", <<>>)

\* the run that is not chunked, forgetting to default an unset egress
whole_egress_unset(egress) == egress

\* lines 84-85: the egress of the run that is not chunked
whole_egress(egress) ==
    IF egress.t = "None" THEN [t |-> "identity", s |-> <<>>] ELSE egress

\* lines 79-80: the egress of the chunked run
chunk_egress(egress) ==
    IF egress.t # "None" THEN PyStr(DFLT_CHUNK_TEMPLATE) ELSE egress

\* a loop that passes over a chunk that fails and goes on with the next
RECURSIVE chunk_loop_keep_going(_, _, _, _, _)
chunk_loop_keep_going(chunks, i, egress, kv_to_item, acc) ==
    IF i > Len(chunks) THEN acc
    ELSE LET target == py_call(egress, PyIntV(i))
             r == store_aggregate(
                      chunks[i],
                      [kv \in PairSet(chunks[i]) |->
                          caller_kv_to_item(kv_to_item, kv[1],
                                            dflt_kv_to_item(kv[1], kv[2]))],
                      target.value, acc.files, TRUE)
         IN chunk_loop_keep_going(
                chunks, i + 1, egress, kv_to_item,
                IF target.status = "raised" THEN acc
                ELSE Effect(Returned(PyNone), acc.aggregated \o r.aggregated,
                            acc.sinks \o r.sinks, r.files))

\* lines 81-82: chunk i is aggregated to the target egress(i)
RECURSIVE chunk_loop(_, _, _, _, _)
chunk_loop(chunks, i, egress, kv_to_item, acc) ==
    IF i > Len(chunks) THEN acc
    ELSE LET target == py_call(egress, PyIntV(i))
         IN IF target.status = "raised"
            THEN Effect(target, acc.aggregated, acc.sinks, acc.files)
            ELSE LET r == store_aggregate(
                              chunks[i],
                              [kv \in PairSet(chunks[i]) |->
                                  caller_kv_to_item(
                                      kv_to_item, kv[1],
                                      dflt_kv_to_item(kv[1], kv[2]))],
                              target.value, acc.files, TRUE)
                     acc1 == Effect(r, acc.aggregated \o r.aggregated,
                                    acc.sinks \o r.sinks, r.files)
                 IN IF r.status = "raised" THEN acc1
                    ELSE chunk_loop(chunks, i + 1, egress, kv_to_item,
                                    Effect(Returned(PyNone), acc1.aggregated,
                                           acc1.sinks, acc1.files))

\* an aggregate_store that filters the caller's store in place and fills in the
\* caller's exclude
aggregate_store_inputs_in_place(store, exclude) ==
    [store |-> filt_iter(store, {x \in KeySet(store) :
                                    endswith(x, MD) /\ x \notin exclude.v}),
     exclude |-> Some(exclude.v)]

\* lines 30-86: the store the caller passed and the caller's exclude after the
\* call; line 31 rebinds the local name, line 65 wraps the store, no
\* statement writes to either
aggregate_store_inputs(store, exclude) == [store |-> store, exclude |-> exclude]

\* lines 8-86; min_dup is min_number_of_duplicated_lines, max_chars is
\* max_num_characters, kv_to_item the formatter passed on to the aggregator
\* in store_aggregate_kwargs, fs the file system
aggregate_store(store, min_dup, max_chars, exclude, chk_size, egress, kv_to_item, fs) ==
    LET wrapped_store == store_wrap(store, min_dup, max_chars, exclude)
        egress1 == egress_callable(egress)
    IN IF egress1.status = "raised" THEN Effect(egress1, <<>>, <<>>, fs)
       ELSE IF chk_size.some
       THEN chunk_loop(chunk_iterable(wrapped_store, chk_size.v), 1,
                       chunk_egress(egress1.value), kv_to_item,
                       Effect(Returned(PyNone), <<>>, <<>>, fs))
       ELSE store_aggregate(wrapped_store,
                            [kv \in PairSet(wrapped_store) |->
                                caller_kv_to_item(
                                    kv_to_item, kv[1],
                                    dflt_kv_to_item(kv[1], kv[2]))],
                            whole_egress(egress1.value), fs, TRUE)

(***************************************************************************)
(* Code sources (contaix.code.CodeSource) and the world they resolve in.   *)
(*   kind     "mapping": a Mapping, its items in src.store                 *)
(*            "str":     a string, its text in src.name                    *)
(*            "module":  a ModuleType object                               *)
(*            "object":  any other object                                  *)
(*   isdir    os.path.isdir(src.name)                                      *)
(*   imp      what importlib.import_module(src.name) does, or for a module *)
(*            or object what it is: "ImportError", "TypeError" (a relative *)
(*            name, no package given), "ValueError" (the empty name),      *)
(*            "file_module" (__file__, no                                  *)
(*            __path__), "package" (__path__ of npaths roots), "plain" (no *)
(*            __file__, no __path__)                                       *)
(*   rootdir  the rootdir attribute of a Mapping that has one              *)
(***************************************************************************)
GITHUB == <<"g", "i", "t", "h", "u", "b">>
contains(s, sub) ==
    \E i \in 0..(Len(s) - Len(sub)) : SubSeq(s, i + 1, i + Len(sub)) = sub

CWD == <<"/", "w">>
\* os.path.abspath
abspath(path) ==
    IF path # <<>> /\ Head(path) = "/" THEN path
    ELSE IF path = <<".">> THEN CWD
    ELSE CWD \o <<"/">> \o path

Names == {<<>>, <<"/", "d">>, <<"p", "k">>, <<".">>, <<".", "z">>, <<"z">>,
          GITHUB, GITHUB \o <<NL>>}
MaxPaths == 2
ImportOutcomes(name) ==
    IF name = <<>> THEN {"ValueError"}
    ELSE IF Head(name) = "."
    THEN {"TypeError"}
    ELSE IF \E i \in DOMAIN name : name[i] \in {"/", NL}
    THEN {"ImportError"}
    ELSE {"ImportError", "file_module", "package", "plain"}

NoDir == [some |-> FALSE, v |-> <<>>]
StrSources ==
    {[kind |-> "str", name |-> n, isdir |-> d, imp |-> o, npaths |-> np,
      store |-> <<>>, rootdir |-> NoDir] :
       n \in Names, d \in BOOLEAN, o \in {"ImportError", "TypeError", "ValueError",
                                          "file_module", "package", "plain"},
       np \in 0..MaxPaths}
ValidStrSources ==
    {src \in StrSources :
        /\ src.imp \in ImportOutcomes(src.name)
        /\ (src.imp # "package" => src.npaths = 0)
        /\ (src.isdir => src.name \in {<<"/", "d">>, <<"p", "k">>, <<".">>})}
ObjectSources ==
    {[kind |-> k, name |-> <<"o", "b", "j">>, isdir |-> FALSE, imp |-> o,
      npaths |-> np, store |-> <<>>, rootdir |-> NoDir] :
       k \in {"module", "object"}, o \in {"file_module", "package", "plain"},
       np \in 0..MaxPaths}
ValidObjectSources ==
    {src \in ObjectSources : src.imp # "package" => src.npaths = 0}
PARENT == <<"/", "r">>
ROOTDIR == PARENT \o <<"/", "s">>
MappingSources ==
    {[kind |-> "mapping", name |-> <<"m", "a", "p">>, isdir |-> FALSE,
      imp |-> "plain", npaths |-> 0, store |-> st, rootdir |-> rd] :
       st \in Stores, rd \in {NoDir, Some(ROOTDIR)}}

\* what the resolved directory lists, in the order the file system gives
DirKeys == {<<"m">> \o PY, <<"b">> \o PY, <<"a">> \o MD}
DirValues == {<<>>, <<" ", "x", " ">>}
Listings ==
    UNION {{st \in [1..n -> {Entry(k, v) : k \in DirKeys, v \in DirValues}] :
               \A i, j \in 1..n : st[i].k = st[j].k => i = j} :
           n \in 0..MaxStoreLen}
\* README.md in the parent of the root: absent, empty or with text
Readmes == {NoFile, Some(<<>>), Some(<<"R">>)}
REPO_DIR == <<"/", "t", "/", "g">>
PKG_DIR(i) == <<"/", "l", "/", "p", Digit[i]>>

Ascii ==
    ("." :> 46) @@ ("/" :> 47) @@ ("A" :> 65) @@ ("D" :> 68) @@ ("E" :> 69)
    @@ ("M" :> 77) @@ ("R" :> 82) @@ ("a" :> 97) @@ ("b" :> 98) @@ ("d" :> 100)
    @@ ("m" :> 109) @@ ("p" :> 112) @@ ("y" :> 121)

\* a < b for Python strings
RECURSIVE str_lt(_, _)
str_lt(a, b) ==
    IF b = <<>> THEN FALSE
    ELSE IF a = <<>> THEN TRUE
    ELSE IF Head(a) # Head(b) THEN Ascii[Head(a)] < Ascii[Head(b)]
    ELSE str_lt(Tail(a), Tail(b))

\* sorted(store) by key
RECURSIVE sorted(_)
sorted(store) ==
    IF store = <<>> THEN <<>>
    ELSE LET i == CHOOSE i \in DOMAIN store :
                     \A j \in DOMAIN store : ~str_lt(store[j].k, store[i].k)
         IN <<store[i]>> \o sorted(SelectSeq(store, LAMBDA e : e.k # store[i].k))

(***************************************************************************)
(* contaix.code: resolution of a code source.                              *)
(***************************************************************************)
UNSUPPORTED == "Unsupported string format or non-directory: "
UNABLE == "Unable to resolve code_src to a valid directory path: "
ONE_PATH == "The __path__ attribute should contain exactly one path, but found: "
RELATIVE == "the 'package' argument is required to perform a relative import for "
EMPTY_NAME == "Empty module name"

\* what importlib.import_module(name) raises other than ImportError
import_error(code_src) ==
    IF code_src.imp = "TypeError"
    THEN Raised("TypeError", <<RELATIVE>> \o code_src.name)
    ELSE Raised("ValueError", <<EMPTY_NAME>>)

importable(code_src) == code_src.imp \in {"file_module", "package", "plain"}

\* the root of a package without the assertion of a single root
path_of_first(code_src) ==
    IF code_src.imp = "package"
    THEN IF code_src.npaths >= 1
         THEN Returned(PyStr(abspath(PKG_DIR(1))))
         ELSE Raised("IndexError", <<>>)
    ELSE Returned(PyStr(CWD))

\* lines 63-74: the root of an object with a __path__
path_of(code_src) ==
    IF code_src.imp = "package"
    THEN IF code_src.npaths = 1
         THEN Returned(PyStr(abspath(PKG_DIR(1))))
         ELSE Raised("AssertionError",
                     <<ONE_PATH>> \o [i \in 1..code_src.npaths |-> "path"])
    ELSE Raised("ValueError", <<UNABLE>> \o code_src.name)

\* lines 27-74; repo_ok: hubcap.ensure_repo_folder gets the repository
resolve_code_source_dir_path(code_src, repo_ok) ==
    IF code_src.kind = "str"
    THEN IF code_src.isdir
         THEN Returned(PyStr(abspath(code_src.name)))
         ELSE IF (\A i \in DOMAIN code_src.name : code_src.name[i] # NL)
                 /\ contains(code_src.name, GITHUB)
         THEN IF repo_ok THEN Returned(PyStr(REPO_DIR))
              ELSE Raised("RepoError", <<>>)
         ELSE IF code_src.imp \in {"TypeError", "ValueError"}
         THEN import_error(code_src)
         ELSE IF importable(code_src)
         THEN path_of(code_src)
         ELSE Raised("ValueError", <<UNSUPPORTED>> \o code_src.name)
    ELSE path_of(code_src)

\* the collaborators resolve_code_source_dir_path consults
dir_path_accesses(code_src) ==
    IF code_src.kind # "str" THEN {}
    ELSE IF code_src.isdir THEN {"isdir"}
    ELSE IF (\A i \in DOMAIN code_src.name : code_src.name[i] # NL)
            /\ contains(code_src.name, GITHUB)
    THEN {"isdir", "ensure_repo_folder"}
    ELSE {"isdir", "import_module"}

\* a directory enumeration that lets every key pass
keys_filt_ignored(keys_filt, k) == TRUE

\* the key filters a caller passes; "py" is the default of resolve_code_source
KeyFilters == {"py", "md", "all"}
keys_filt_holds(keys_filt, k) ==
    CASE keys_filt = "py" -> endswith(k, PY)
      [] keys_filt = "md" -> endswith(k, MD)
      [] OTHER -> TRUE

NoStore == [obj |-> "none", rootdir |-> NoDir, items |-> <<>>]
Resolution(r, store, accesses) ==
    [status |-> r.status, value |-> r.value, exc |-> r.exc, msg |-> r.msg,
     store |-> store, accesses |-> accesses]

\* lines 94-96, 106-108: {basename(path): text of the file}
MODULE_TEXT == <<"x", NL>>
single_file_store ==
    [obj |-> "dict", rootdir |-> NoDir,
     items |-> <<Entry(<<"m">> \o PY, MODULE_TEXT)>>]

\* the store of a directory without keys_cache=sorted: the keys come in the
\* order the file system lists them
directory_store_unsorted(rootdir, keys_filt, listing) ==
    [obj |-> "cached_keys", rootdir |-> Some(rootdir),
     items |-> filt_iter(listing,
                         {k \in KeySet(listing) : keys_filt_holds(keys_filt, k)})]

\* lines 116-118: cached_keys(filt_iter(TextFiles(root), filt=keys_filt), sorted)
directory_store(rootdir, keys_filt, listing) ==
    [obj |-> "cached_keys", rootdir |-> Some(rootdir),
     items |-> sorted(filt_iter(listing,
                                {k \in KeySet(listing) :
                                    keys_filt_holds(keys_filt, k)}))]

\* a resolution that filters the keys of a Mapping source as well
resolve_mapping_or_dir_filtered(code_src, keys_filt, listing, repo_ok, accesses) ==
    IF code_src.kind = "mapping"
    THEN Resolution(Returned(PyNone),
                    [obj |-> "filt_iter", rootdir |-> code_src.rootdir,
                     items |-> filt_iter(code_src.store,
                                         {k \in KeySet(code_src.store) :
                                             keys_filt_holds(keys_filt, k)})],
                    accesses)
    ELSE LET code_src_rootdir == resolve_code_source_dir_path(code_src, repo_ok)
         IN IF code_src_rootdir.status = "raised"
            THEN Resolution(code_src_rootdir, NoStore, accesses)
            ELSE Resolution(Returned(PyNone),
                            directory_store(code_src_rootdir.value.s,
                                            keys_filt, listing),
                            accesses)

\* lines 112-118
resolve_mapping_or_dir(code_src, keys_filt, listing, repo_ok, accesses) ==
    IF code_src.kind = "mapping"
    THEN Resolution(Returned(PyNone),
                    [obj |-> "source", rootdir |-> code_src.rootdir,
                     items |-> code_src.store],
                    accesses)
    ELSE LET code_src_rootdir == resolve_code_source_dir_path(code_src, repo_ok)
             acc == accesses \cup dir_path_accesses(code_src)
         IN IF code_src_rootdir.status = "raised"
            THEN Resolution(code_src_rootdir, NoStore, acc)
            ELSE Resolution(Returned(PyNone),
                            directory_store(code_src_rootdir.value.s,
                                            keys_filt, listing),
                            acc \cup {"TextFiles"})

\* lines 77-118
resolve_code_source(code_src, keys_filt, listing, repo_ok) ==
    IF code_src.kind = "module" /\ code_src.imp = "file_module"
    THEN Resolution(Returned(PyNone), single_file_store, {"open"})
    ELSE IF code_src.kind = "str"
    THEN IF code_src.imp \in {"TypeError", "ValueError"}
         THEN Resolution(import_error(code_src), NoStore, {"import_module"})
         ELSE IF code_src.imp = "ImportError"
         THEN resolve_mapping_or_dir(code_src, keys_filt, listing, repo_ok,
                                     {"import_module"})
         ELSE IF code_src.imp = "file_module"
         THEN Resolution(Returned(PyNone), single_file_store,
                         {"import_module", "open"})
         ELSE resolve_mapping_or_dir([code_src EXCEPT !.kind = "module"],
                                     keys_filt, listing, repo_ok,
                                     {"import_module"})
    ELSE resolve_mapping_or_dir(code_src, keys_filt, listing, repo_ok, {})

(***************************************************************************)
(* contaix.code.code_aggregate                                             *)
(***************************************************************************)
\* kv_to_item that forgets to strip the value
kv_to_item_unstripped(k, v) ==
    <<"#", "#", " ">> \o k \o SEP \o FENCE \o <<"p", "y", "t", "h", "o", "n", NL>>
        \o v \o <<NL>> \o FENCE

\* line 142: the default kv_to_item
kv_to_item(k, v) ==
    <<"#", "#", " ">> \o k \o SEP \o FENCE \o <<"p", "y", "t", "h", "o", "n", NL>>
        \o strip(v) \o <<NL>> \o FENCE

\* lines 124-135; readme: the README.md of the parent directory of rootdir
readme_from_parent_dir(code_store, readme) ==
    IF code_store.rootdir.some /\ readme.some THEN readme ELSE NoFile

\* a chain of mappings iterated from the first mapping on
ChainMap_first_keys_first(first, second) ==
    first \o SelectSeq(second, LAMBDA e : e.k \notin KeySet(first))

\* collections.ChainMap(first, second): iteration starts with the keys of the
\* last mapping, lookup starts with the first
ChainMap(first, second) ==
    LET ks == KeysOf(second)
              \o SelectSeq(KeysOf(first), LAMBDA k : k \notin KeySet(second))
        get(k) == IF k \in KeySet(first)
                  THEN first[CHOOSE i \in DOMAIN first : first[i].k = k].v
                  ELSE second[CHOOSE i \in DOMAIN second : second[i].k = k].v
    IN [i \in DOMAIN ks |-> Entry(ks[i], get(ks[i]))]

\* an overlay that stores the README in the resolved store itself
code_store_after_update(code_store, include_readme, readme) ==
    IF include_readme /\ readme_from_parent_dir(code_store, readme).some
       /\ readme_from_parent_dir(code_store, readme).v # <<>>
    THEN SelectSeq(code_store.items, LAMBDA e : e.k # README_MD)
            \o <<Entry(README_MD, readme_from_parent_dir(code_store, readme).v)>>
    ELSE code_store.items

\* lines 216-226: the resolved store after the call; line 223 rebinds the
\* local name to a ChainMap over the store, which is then only read
code_store_after(code_store, include_readme, readme) == code_store.items

\* lines 216-223: the store that is aggregated
with_readme(code_store, include_readme, readme) ==
    IF include_readme
    THEN LET readme_content == readme_from_parent_dir(code_store, readme)
         IN IF readme_content.some /\ readme_content.v # <<>>
            THEN ChainMap(code_store.items,
                          <<Entry(README_MD, readme_content.v)>>)
            ELSE code_store.items
    ELSE code_store.items

\* lines 138-226; world: what the call finds outside (the listing of the
\* directory, the parent's README, whether the repository can be fetched,
\* what the aggregator returns after writing a file), formatter the
\* kv_to_item argument, fs the file system
code_aggregate(code_src, egress, formatter, include_readme, world, fs) ==
    LET res == resolve_code_source(code_src, "py", world.listing, world.repo_ok)
        code_store == with_readme(res.store, include_readme, world.readme)
    IN IF res.status = "raised" THEN Effect(res, <<>>, <<>>, fs)
       ELSE store_aggregate(code_store,
                            [kv \in PairSet(code_store) |->
                                caller_kv_to_item(formatter, kv[1],
                                                  kv_to_item(kv[1], kv[2]))],
                            egress, fs, world.returns_path)

(***************************************************************************)
(* contaix.urls.download_articles.  A markdown string is a sequence of     *)
(* tokens: the three delimiters of the pattern of line 229, the newline    *)
(* and single characters.                                                  *)
(***************************************************************************)
OPEN == "- **["
MID == "]("
CLOSE == ")**"

\* line 230: re.findall(pattern, md_string) from position i on; a group
\* (.*?) takes the fewest tokens and never a newline
RECURSIVE findall(_, _)
findall(md_string, i) ==
    IF i > Len(md_string) THEN <<>>
    ELSE LET no_newline(a, b) == \A n \in a..b : md_string[n] # NL
             closes(j) == {k \in (j + 1)..Len(md_string) :
                              md_string[k] = CLOSE /\ no_newline(j + 1, k - 1)}
             mids == {j \in (i + 1)..Len(md_string) :
                         /\ md_string[j] = MID
                         /\ no_newline(i + 1, j - 1)
                         /\ closes(j) # {}}
         IN IF md_string[i] # OPEN \/ mids = {}
            THEN findall(md_string, i + 1)
            ELSE LET j == CHOOSE j \in mids : \A m \in mids : j <= m
                     k == CHOOSE k \in closes(j) : \A m \in closes(j) : k <= m
                 IN <<[title |-> SubSeq(md_string, i + 1, j - 1),
                       url |-> SubSeq(md_string, j + 1, k - 1)]>>
                       \o findall(md_string, k + 1)

\* line 236: re.sub(r"[^\w\-_\. ]", "_", title)
WordChars == {"t", "u", "v", "-", "_", ".", " "}
sanitized_title(title) ==
    [i \in DOMAIN title |-> IF title[i] \in WordChars THEN title[i] ELSE "_"]

SAVE_DIR == <<"/", "s">>
\* os.path.join(save_dir, sanitized_title + suffix)
path_in(save_dir, title, suffix) ==
    save_dir \o <<"/">> \o sanitized_title(title) \o suffix

(***************************************************************************)
(* What requests.get(url, stream=True) meets, one value for each GET:      *)
(*   "ConnectionError"  the request raises                                 *)
(*   "HTTPError"        raise_for_status raises                            *)
(*   "html"             a Content-Type without application/pdf            *)
(*   "not_pdf"          a PDF Content-Type, a body not starting with %PDF  *)
(*   "empty"            a PDF Content-Type, no body                        *)
(*   "pdf"              a PDF, read to its end                             *)
(*   "pdf_cut"          a PDF whose stream raises after its first chunk    *)
(* A body is the sequence of its chunks.                                   *)
(***************************************************************************)
Outcomes ==
    {"ConnectionError", "HTTPError", "html", "not_pdf", "empty", "pdf", "pdf_cut"}
PDF_MAGIC == "%PDF"
body_of(outcome) ==
    CASE outcome = "html" -> <<"<html>", "x">>
      [] outcome = "not_pdf" -> <<"junk", "x">>
      [] outcome \in {"pdf", "pdf_cut"} -> <<PDF_MAGIC, "x">>
      [] OTHER -> <<>>

\* a loop body that takes a download for good once the headers are good
download_link_unverified(link, outcome, save_dir, save_non_pdf) ==
    IF outcome \in {"ConnectionError", "HTTPError", "html"}
    THEN [failed |-> TRUE, writes |-> <<>>]
    ELSE [failed |-> FALSE,
          writes |-> <<[path |-> path_in(save_dir, link.title, <<".", "p", "d", "f">>),
                        content |-> body_of(outcome)]>>]

\* lines 235-288: the body of the loop for one link; failed: the url is
\* appended to failed_urls; writes: the files written, in order
download_link(link, outcome, save_dir, save_non_pdf) ==
    IF outcome \in {"ConnectionError", "HTTPError"}
    THEN [failed |-> TRUE, writes |-> <<>>]
    ELSE IF outcome = "html"
    THEN [failed |-> TRUE,
          writes |-> IF save_non_pdf
                     THEN <<[path |-> path_in(save_dir, link.title,
                                              <<"_", "n", "o", "n", "_", "p", "d",
                                                "f", ".", "h", "t", "m", "l">>),
                             content |-> body_of(outcome)]>>
                     ELSE <<>>]
    \* next() of an exhausted iterator raises StopIteration, an Exception
    ELSE IF body_of(outcome) = <<>>
    THEN [failed |-> TRUE, writes |-> <<>>]
    ELSE IF Head(body_of(outcome)) # PDF_MAGIC
    THEN [failed |-> TRUE,
          writes |-> IF save_non_pdf
                     THEN <<[path |-> path_in(save_dir, link.title,
                                              <<"_", "i", "n", "v", "a", "l", "i",
                                                "d", ".", "p", "d", "f">>),
                             content |-> body_of(outcome)]>>
                     ELSE <<>>]
    ELSE IF outcome = "pdf_cut"
    THEN [failed |-> TRUE,
          writes |-> <<[path |-> path_in(save_dir, link.title,
                                         <<".", "p", "d", "f">>),
                        content |-> <<Head(body_of(outcome))>>]>>]
    ELSE [failed |-> FALSE,
          writes |-> <<[path |-> path_in(save_dir, link.title,
                                         <<".", "p", "d", "f">>),
                        content |-> body_of(outcome)]>>]

RECURSIVE write_all(_, _)
write_all(fs, writes) ==
    IF writes = <<>> THEN fs
    ELSE write_all(write_text(fs, Head(writes).path, Head(writes).content),
                   Tail(writes))

PyList(items) == [t |-> "list", s |-> items]
Download(r, gets, writes, fs) ==
    [status |-> r.status, value |-> r.value, exc |-> r.exc, msg |-> r.msg,
     gets |-> gets, writes |-> writes, files |-> fs]

\* lines 232-290: the loop over the matches; responses[i] is what the i-th
\* GET meets
RECURSIVE download_loop(_, _, _, _, _, _)
download_loop(matches, responses, i, save_dir, save_non_pdf, acc) ==
    IF i > Len(matches) THEN acc
    ELSE LET r == download_link(matches[i], responses[i], save_dir, save_non_pdf)
             failed_urls == IF r.failed THEN acc.value.s \o <<matches[i].url>>
                            ELSE acc.value.s
             written == [w \in DOMAIN r.writes |->
                            [get |-> i, path |-> r.writes[w].path,
                             content |-> r.writes[w].content]]
         IN download_loop(matches, responses, i + 1, save_dir, save_non_pdf,
                          Download(Returned(PyList(failed_urls)),
                                   acc.gets \o <<matches[i].url>>,
                                   acc.writes \o written,
                                   write_all(acc.files, r.writes)))

\* lines 181-290, for a non-empty md_string (an empty one is replaced by the
\* clipboard, line 219); dir_exists: os.path.exists(save_dir)
download_articles(md_string, responses, save_dir, dir_exists, save_non_pdf, fs) ==
    IF ~dir_exists
    THEN Download(Raised("AssertionError",
                         <<"Directory not found: ">> \o save_dir),
                  <<>>, <<>>, fs)
    ELSE download_loop(findall(md_string, 1), responses, 1, save_dir,
                       save_non_pdf,
                       Download(Returned(PyList(<<>>)), <<>>, <<>>, fs))

\* the lines a markdown string is made of: two bulleted bold links, a
\* bulleted link never closed, a link that is not bulleted
LinkLine(title, url) == <<OPEN>> \o title \o <<MID>> \o url \o <<CLOSE>>
MdLines ==
    {LinkLine(<<"t">>, <<"u">>), LinkLine(<<"t", "?">>, <<"v">>),
     <<OPEN, "t", MID, "u">>, <<"[", "t", MID, "u", ")">>}

(***************************************************************************)
(* The calls.                                                              *)
(***************************************************************************)
PyIdentity == [t |-> "identity", s |-> <<>>]
TEMPLATE == <<"o", "_", FieldInt>> \o MD
BadEgress == PyIntV(5)
AggregateEgresses == {PyNone, PyStr(OUT_MD), PyStr(TEMPLATE), PyCallable, BadEgress}
CodeEgresses == {PyIdentity, PyStr(OUT_MD), PyCallable}
Excludes == {NoSet} \cup {Some(e) : e \in SUBSET {<<"a">> \o MD, <<"m">> \o PY}}
DedupOptions == {NoOpt, Some(1)}
CapOptions == {NoOpt} \cup {Some(n) : n \in 0..MaxCap}
ChunkOptions == {NoOpt} \cup {Some(n) : n \in 1..MaxChunk}
Sources == MappingSources \cup ValidStrSources \cup ValidObjectSources

NoCall == [op |-> "none"]
NoEffect == Effect(Returned(PyNone), <<>>, <<>>, <<>>)
NoObjects == [store |-> <<>>, exclude |-> NoSet]

Init ==
    /\ pc = "idle"
    /\ call = NoCall
    /\ out = NoEffect
    /\ files = [p \in {OUT_MD} |-> Some(OldContent)]
    /\ objects = NoObjects

CallAggregateStore ==
    /\ pc = "idle"
    /\ \E store \in Stores, min_dup \in DedupOptions, max_chars \in CapOptions,
          exclude \in Excludes, chk_size \in ChunkOptions,
          egress \in AggregateEgresses, kv \in KvToItems :
          /\ call' = [op |-> "aggregate_store", store |-> store, kv_to_item |-> kv,
                      min_number_of_duplicated_lines |-> min_dup,
                      max_num_characters |-> max_chars, exclude |-> exclude,
                      chk_size |-> chk_size, egress |-> egress]
          /\ out' = aggregate_store(store, min_dup, max_chars, exclude,
                                    chk_size, egress, kv, files)
          /\ objects' = aggregate_store_inputs(store, exclude)
    /\ files' = out'.files
    /\ pc' = "done"

\* does the call read the directory, the parent's README, the remote repository
reads_directory(code_src) == code_src.kind # "mapping"
reads_readme(code_src) == code_src.kind # "mapping" \/ code_src.rootdir.some

CallCodeAggregate ==
    /\ pc = "idle"
    /\ \E code_src \in Sources, egress \in CodeEgresses,
          include_readme \in BOOLEAN, listing \in Listings, readme \in Readmes,
          repo_ok \in BOOLEAN, returns_path \in BOOLEAN, kv \in KvToItems :
          /\ ~reads_directory(code_src) => listing = <<>> /\ repo_ok
          /\ ~(reads_readme(code_src) /\ include_readme) => readme = NoFile
          /\ egress.t # "str" => returns_path
          /\ call' = [op |-> "code_aggregate", code_src |-> code_src,
                      kv_to_item |-> kv,
                      egress |-> egress, include_readme |-> include_readme,
                      listing |-> listing, readme |-> readme,
                      repo_ok |-> repo_ok]
          /\ out' = code_aggregate(code_src, egress, kv, include_readme,
                                   [listing |-> listing, readme |-> readme,
                                    repo_ok |-> repo_ok,
                                    returns_path |-> returns_path],
                                   files)
          /\ objects' = [NoObjects EXCEPT !.store =
                            code_store_after(
                                resolve_code_source(code_src, "py", listing,
                                                    repo_ok).store,
                                include_readme, readme)]
    /\ files' = out'.files
    /\ pc' = "done"

CallResolveCodeSource ==
    /\ pc = "idle"
    /\ \E code_src \in Sources, keys_filt \in KeyFilters, listing \in Listings,
          repo_ok \in BOOLEAN :
          /\ ~reads_directory(code_src) => listing = <<>> /\ repo_ok
          /\ call' = [op |-> "resolve_code_source", code_src |-> code_src,
                      keys_filt |-> keys_filt, listing |-> listing,
                      repo_ok |-> repo_ok]
          /\ out' = resolve_code_source(code_src, keys_filt, listing, repo_ok)
          /\ objects' = [NoObjects EXCEPT !.store = out'.store.items]
    /\ files' = files
    /\ pc' = "done"

CallDownloadArticles ==
    /\ pc = "idle"
    /\ \E n \in 1..MaxLines, dir_exists \in BOOLEAN, save_non_pdf \in BOOLEAN :
       \E lines \in [1..n -> MdLines] :
          LET md_string == join(<<NL>>, lines)
              num_gets == IF dir_exists THEN Len(findall(md_string, 1)) ELSE 0
          IN \E responses \in [1..num_gets -> Outcomes] :
                /\ call' = [op |-> "download_articles", lines |-> lines,
                            md_string |-> md_string, responses |-> responses,
                            save_dir |-> SAVE_DIR, dir_exists |-> dir_exists,
                            save_non_pdf |-> save_non_pdf]
                /\ out' = download_articles(md_string, responses, SAVE_DIR,
                                            dir_exists, save_non_pdf, files)
    /\ files' = out'.files
    /\ objects' = NoObjects
    /\ pc' = "done"

Next ==
    \/ CallAggregateStore
    \/ CallCodeAggregate
    \/ CallResolveCodeSource
    \/ CallDownloadArticles

Spec == Init /\ [][Next]_vars

(***************************************************************************)
(* Properties.                                                             *)
(***************************************************************************)
Done(op) == pc = "done" /\ call.op = op

\* the part of a string left when the whitespace at both ends is dropped
Stripped(v) ==
    LET inner == {i \in DOMAIN v : v[i] \notin Whitespace}
    IN IF inner = {} THEN <<>>
       ELSE SubSeq(v, CHOOSE i \in inner : \A j \in inner : i <= j,
                      CHOOSE i \in inner : \A j \in inner : j <= i)

Section(e) ==
    <<"#", "#", " ">> \o e.k \o <<NL, NL>> \o <<BQ, BQ, BQ>>
        \o <<"p", "y", "t", "h", "o", "n">> \o <<NL>> \o Stripped(e.v)
        \o <<NL>> \o <<BQ, BQ, BQ>>

\* the sections of the first n items, a blank line between two of them
RECURSIVE Sections(_, _)
Sections(store, n) ==
    IF n = 0 THEN <<>>
    ELSE IF n = 1 THEN Section(store[1])
    ELSE Sections(store, n - 1) \o <<NL, NL>> \o Section(store[n])

ReadmeOverlaid ==
    /\ call.include_readme
    /\ call.code_src.rootdir.some
    /\ call.readme.some /\ call.readme.v # <<>>

\* C1: code_aggregate of an in-memory mapping, with no README overlay, the
\* default formatter and the default egress, returns the sections of the items
\* in the mapping's order ('## key', blank line, fenced python block of the
\* stripped value) joined by a blank line; the empty mapping gives the empty
\* string and nothing is raised.
C1_MappingAggregate ==
    (/\ Done("code_aggregate")
     /\ call.code_src.kind = "mapping"
     /\ ~ReadmeOverlaid
     /\ call.kv_to_item = "default"
     /\ call.egress = PyIdentity)
    => /\ out.status = "returned"
       /\ out.value = PyStr(Sections(call.code_src.store,
                                     Len(call.code_src.store)))
       /\ (call.code_src.store = <<>> => out.value = PyStr(<<>>))

C1_Witness ==
    /\ Done("code_aggregate")
    /\ call.code_src.kind = "mapping"
    /\ ~ReadmeOverlaid
    /\ call.kv_to_item = "default"
    /\ call.egress = PyIdentity
    /\ Len(call.code_src.store) = 2
    /\ call.code_src.store[1].v = <<" ", "x", " ">>
    /\ out.status = "returned"
    /\ Len(out.value.s) > 0

NothingConfigured ==
    /\ ~call.exclude.some
    /\ ~call.min_number_of_duplicated_lines.some
    /\ ~call.max_num_characters.some

\* C2: aggregate_store with exclude, min_number_of_duplicated_lines and
\* max_num_characters all unset applies no transform: the store handed to the
\* aggregator is the input store, every key aggregated whatever its suffix.
C2_NoTransformWhenUnset ==
    (/\ Done("aggregate_store")
     /\ NothingConfigured
     /\ ~call.chk_size.some
     /\ out.status = "returned")
    => out.aggregated = <<call.store>>

\* C3: aggregate_store(store, exclude=E) with no other option aggregates
\* exactly the keys of the store that are not in E, in store order.
C3_ExcludeOnly ==
    (/\ Done("aggregate_store")
     /\ call.exclude.some
     /\ ~call.min_number_of_duplicated_lines.some
     /\ ~call.max_num_characters.some
     /\ ~call.chk_size.some
     /\ out.status = "returned")
    => /\ Len(out.aggregated) = 1
       /\ KeysOf(out.aggregated[1])
             = SelectSeq(KeysOf(call.store), LAMBDA k : k \notin call.exclude.v)

\* C4: an aggregation that is not chunked and has a string egress p writes
\* the complete aggregate document to the file at p, replacing what was there
\* (aggregate_store with chk_size unset, and code_aggregate).
C4_StringEgressWritesFile ==
    (/\ pc = "done"
     /\ \/ call.op = "code_aggregate"
        \/ call.op = "aggregate_store" /\ ~call.chk_size.some
     /\ call.egress = PyStr(OUT_MD)
     /\ Len(out.sinks) = 1)
    => file_at(files, OUT_MD) = Some(out.sinks[1].doc)

\* the document of a store under the default formatter of the aggregator
RECURSIVE PlainDocument(_, _)
PlainDocument(store, n) ==
    IF n = 0 THEN <<>>
    ELSE (IF n = 1 THEN <<>> ELSE PlainDocument(store, n - 1) \o <<NL, NL>>)
         \o <<"#", "#", " ">> \o store[n].k \o <<NL, NL>> \o store[n].v

\* C5: aggregate_store that is not chunked (default formatter) returns the aggregate document
\* unchanged when egress is None; a callable egress is invoked exactly once,
\* with the complete document, and its result is returned.
C5_NoneAndCallableEgress ==
    (/\ Done("aggregate_store")
     /\ ~call.chk_size.some
     /\ call.kv_to_item = "default"
     /\ call.egress \in {PyNone, PyCallable})
    => /\ out.status = "returned"
       /\ Len(out.aggregated) = 1
       /\ Len(out.sinks) = 1
       /\ out.sinks[1].doc
             = PlainDocument(out.aggregated[1], Len(out.aggregated[1]))
       /\ call.egress = PyNone => out.value = PyStr(out.sinks[1].doc)
       /\ call.egress = PyCallable
            => /\ out.sinks[1].target = PyCallable
               /\ out.value = PyResultOfCallable(out.sinks[1].doc)
       /\ files = [p \in {OUT_MD} |-> Some(OldContent)]

C5_Witness ==
    /\ Done("aggregate_store")
    /\ ~call.chk_size.some
    /\ call.egress = PyCallable
    /\ Len(out.sinks) = 1
    /\ Len(out.sinks[1].doc) > 0
    /\ out.value = PyResultOfCallable(out.sinks[1].doc)

\* the chunked calls whose store passes every reading of the transforms
\* unchanged: nothing configured and every key a markdown key
ChunkedPlainCall ==
    /\ Done("aggregate_store")
    /\ call.chk_size.some
    /\ NothingConfigured
    /\ \A i \in DOMAIN call.store : endswith(call.store[i].k, MD)

NumChunks == (Len(call.store) + call.chk_size.v - 1) \div call.chk_size.v
TwoDigits(i) == IF i < 10 THEN <<"0", Digit[i]>> ELSE IntStr(i)
\* 'o_{:02d}.md'.format(i) and 'store_aggregate_{:02.0f}.md'.format(i)
TemplateTarget(i) == <<"o", "_">> \o TwoDigits(i) \o <<".", "m", "d">>
DefaultTarget(i) ==
    <<"s", "t", "o", "r", "e", "_", "a", "g", "g", "r", "e", "g", "a", "t", "e",
      "_">> \o TwoDigits(i) \o <<".", "m", "d">>

\* C6: aggregate_store with an integer chk_size and a string egress template T
\* routes chunk i (1-based, store order) to T.format(i): the call returns
\* without raising and every chunk's file exists afterwards.
C6_TemplateEgressPerChunk ==
    (ChunkedPlainCall /\ call.egress = PyStr(TEMPLATE))
    => /\ out.status = "returned"
       /\ \A i \in 1..NumChunks : file_at(files, TemplateTarget(i)).some

\* C7: in chunked mode the default per-chunk template is used if and only if
\* the caller did not set egress: unset, chunk i goes to the default-template
\* file of index i; set, the caller's egress decides every target.
C7_DefaultTemplateIffUnset ==
    (ChunkedPlainCall /\ call.egress \in {PyNone, PyStr(TEMPLATE), PyCallable})
    => /\ out.status = "returned"
       /\ \A i \in 1..NumChunks :
             file_at(files, DefaultTarget(i)).some <=> call.egress = PyNone

RECURSIVE Flatten(_)
Flatten(chunks) ==
    IF chunks = <<>> THEN <<>> ELSE Head(chunks) \o Flatten(Tail(chunks))

\* C8: the chunks handed to the aggregator hold at most chk_size consecutive
\* pairs each, only the last may hold fewer, and concatenated in chunk order
\* they are the store's pairs in the original order.
C8_ChunksPartitionStore ==
    (ChunkedPlainCall /\ call.egress \in {PyNone, PyStr(TEMPLATE), PyCallable})
    => /\ Flatten(out.aggregated) = call.store
       /\ \A i \in DOMAIN out.aggregated :
             /\ Len(out.aggregated[i]) >= 1
             /\ Len(out.aggregated[i]) <= call.chk_size.v
             /\ i < Len(out.aggregated)
                  => Len(out.aggregated[i]) = call.chk_size.v

\* a source that is no mapping, no existing directory, no importable name and
\* no locator of a remote repository
Unresolvable(src) ==
    \/ /\ src.kind = "str"
       /\ ~src.isdir
       /\ src.imp \in {"ImportError", "TypeError", "ValueError"}
       /\ ~(NL \notin {src.name[i] : i \in DOMAIN src.name}
            /\ \E i \in 1..(Len(src.name) - 5) :
                  SubSeq(src.name, i, i + 5) = <<"g", "i", "t", "h", "u", "b">>)
    \/ src.kind = "object" /\ src.imp # "package"
    \/ src.kind = "module" /\ src.imp = "plain"

\* a package whose __path__ does not hold exactly one root
NotOneRoot(src) ==
    src.kind # "mapping" /\ src.imp = "package" /\ src.npaths # 1

NamesInput(msg, name) ==
    \E i \in 0..(Len(msg) - Len(name)) : SubSeq(msg, i + 1, i + Len(name)) = name

\* C9: resolve_code_source never returns a store for a source it cannot
\* resolve: it raises an error whose message names the input; for a package
\* with zero or several roots it raises instead of picking one.
C9_UnresolvableRaises ==
    Done("resolve_code_source")
    => /\ Unresolvable(call.code_src)
            => /\ out.status = "raised"
               /\ out.store.obj = "none"
               /\ NamesInput(out.msg, call.code_src.name)
       /\ NotOneRoot(call.code_src)
            => out.status = "raised" /\ out.store.obj = "none"

C9_Witness ==
    /\ Done("resolve_code_source")
    /\ call.code_src.kind = "str"
    /\ Unresolvable(call.code_src)
    /\ out.status = "raised"
    /\ out.exc = "ValueError"
    /\ NamesInput(out.msg, call.code_src.name)

\* C10: for a Mapping source and any keys_filt, resolve_code_source returns
\* the mapping itself: same object, keys, values and order, and no file
\* system or network access.
C10_MappingReturnedAsIs ==
    (Done("resolve_code_source") /\ call.code_src.kind = "mapping")
    => /\ out.status = "returned"
       /\ out.store.obj = "source"
       /\ out.store.items = call.code_src.store
       /\ out.accesses = {}

C10_Witness ==
    /\ Done("resolve_code_source")
    /\ call.code_src.kind = "mapping"
    /\ call.keys_filt = "py"
    /\ Len(call.code_src.store) = 2
    /\ \E i \in DOMAIN call.code_src.store :
          ~endswith(call.code_src.store[i].k, PY)
    /\ out.store.items = call.code_src.store

\* the orders in which the file system may list the same directory
Relistings(listing) ==
    {[i \in DOMAIN listing |-> listing[p[i]]] :
        p \in {q \in [DOMAIN listing -> DOMAIN listing] :
                  \A i, j \in DOMAIN listing : q[i] = q[j] => i = j}}

\* the call resolved a directory (named, of a package or of a repository)
ResolvedDirectory ==
    /\ Done("resolve_code_source")
    /\ out.status = "returned"
    /\ out.store.obj = "cached_keys"

\* C11: the keys of the store resolved from a directory are exactly the
\* relative paths of the directory that satisfy keys_filt, in ascending
\* order, each with the text of its file; a second resolution of the same
\* directory, in whatever order the file system lists it, gives the same
\* sequence.
C11_DirectoryKeysSorted ==
    ResolvedDirectory
    => LET items == out.store.items
       IN /\ KeySet(items)
                = {k \in KeySet(call.listing) :
                      IF call.keys_filt = "py" THEN endswith(k, PY)
                      ELSE IF call.keys_filt = "md" THEN endswith(k, MD)
                      ELSE TRUE}
          /\ \A i, j \in DOMAIN items : i < j => str_lt(items[i].k, items[j].k)
          /\ \A i \in DOMAIN items :
                \E j \in DOMAIN call.listing : call.listing[j] = items[i]
          /\ \A again \in Relistings(call.listing) :
                resolve_code_source(call.code_src, call.keys_filt, again,
                                    call.repo_ok).store.items = items

C11_Witness ==
    /\ ResolvedDirectory
    /\ call.code_src.kind = "str"
    /\ call.code_src.isdir
    /\ call.keys_filt = "py"
    /\ KeysOf(call.listing) = <<<<"m">> \o PY, <<"b">> \o PY>>
    /\ KeysOf(out.store.items) = <<<<"b">> \o PY, <<"m">> \o PY>>

\* v[:N] for N >= 0
Cap(v, N) == IF Len(v) <= N THEN v ELSE [i \in 1..N |-> v[i]]

\* the value stored under key k
Stored(store, k) == store[CHOOSE i \in DOMAIN store : store[i].k = k].v

\* C12: every value aggregate_store delivers to the aggregator is the stored
\* value of its key, deduplicated (if min_number_of_duplicated_lines is set)
\* as untruncated text and then cut to its first max_num_characters
\* characters (if set): at most N characters long, unchanged if no longer
\* than N and not deduplicated, and never truncated when N is unset.
C12_CapAfterDedup ==
    Done("aggregate_store")
    => \A c \in DOMAIN out.aggregated : \A i \in DOMAIN out.aggregated[c] :
          LET e == out.aggregated[c][i]
              dedup == call.min_number_of_duplicated_lines
              N == call.max_num_characters
          IN /\ e.k \in KeySet(call.store)
             /\ LET v == Stored(call.store, e.k)
                    d == IF dedup.some
                         THEN deduplicate_string_lines(v, dedup.v) ELSE v
                IN /\ e.v = (IF N.some THEN Cap(d, N.v) ELSE d)
                   /\ N.some => Len(e.v) <= N.v
                   /\ (N.some /\ ~dedup.some /\ Len(v) <= N.v) => e.v = v
                   /\ ~N.some => e.v = d

C12_Witness ==
    /\ Done("aggregate_store")
    /\ call.min_number_of_duplicated_lines = Some(1)
    /\ call.max_num_characters = Some(2)
    /\ Len(out.aggregated) = 1
    /\ \E i \in DOMAIN out.aggregated[1] :
          /\ Stored(call.store, out.aggregated[1][i].k) = <<"x", NL, "x">>
          /\ out.aggregated[1][i].v = <<"x">>

\* the store code_aggregate resolved, and whether the call got a README text
ResolvedStore ==
    resolve_code_source(call.code_src, "py", call.listing, call.repo_ok).store
ReadmeReturned ==
    /\ call.include_readme
    /\ ResolvedStore.rootdir.some
    /\ call.readme.some /\ call.readme.v # <<>>
CodeAggregated ==
    /\ Done("code_aggregate")
    /\ call.kv_to_item = "default"
    /\ Len(out.aggregated) = 1

\* C13 as stated: with a README text the aggregate is the README.md section
\* followed by all entries of the resolved store in the store's order, without
\* it the store's entries alone; the resolved store is left as it was.
C13_ReadmeThenAllEntries ==
    CodeAggregated
    => LET agg == out.aggregated[1]
       IN /\ IF ReadmeReturned
             THEN /\ agg # <<>>
                  /\ agg[1].k = README_MD
                  /\ Tail(agg) = ResolvedStore.items
             ELSE agg = ResolvedStore.items
          /\ out.sinks[1].doc = Sections(agg, Len(agg))
          /\ objects.store = ResolvedStore.items

\* C13 amended: with a README text the aggregate is one README.md section
\* followed by the entries of the resolved store under every other key, in the
\* store's order (a store without a key README.md follows whole, after the
\* README text); without a README text the store's entries alone; the
\* resolved store is left as it was.
C13_ReadmeThenOtherEntries ==
    CodeAggregated
    => LET agg == out.aggregated[1]
           store == ResolvedStore.items
       IN /\ IF ReadmeReturned
             THEN /\ agg # <<>>
                  /\ agg[1].k = README_MD
                  /\ Tail(agg) = SelectSeq(store, LAMBDA e : e.k # README_MD)
                  /\ README_MD \notin KeySet(store)
                       => agg[1].v = call.readme.v /\ Tail(agg) = store
             ELSE agg = store
          /\ out.sinks[1].doc = Sections(agg, Len(agg))
          /\ objects.store = store

C13_Witness ==
    /\ CodeAggregated
    /\ ReadmeReturned
    /\ Len(ResolvedStore.items) = 2
    /\ README_MD \notin KeySet(ResolvedStore.items)
    /\ Len(out.aggregated[1]) = 3
    /\ out.aggregated[1][1] = Entry(README_MD, <<"R">>)
    /\ objects.store = ResolvedStore.items

\* the formatter was called on an entry on which it raises
FormatterRaised ==
    /\ pc = "done"
    /\ call.op \in {"aggregate_store", "code_aggregate"}
    /\ call.kv_to_item = "raising"
    /\ \E c \in DOMAIN out.aggregated : \E i \in DOMAIN out.aggregated[c] :
          out.aggregated[c][i].k \in {<<"a", ".", "m", "d">>, <<"b", ".", "p", "y">>}

\* C14: when the formatter raises on an entry, the call raises the
\* formatter's error, the egress is not invoked with any document and no file
\* is written: nothing built from only part of the entries gets out.
C14_FormatterErrorAborts ==
    FormatterRaised
    => /\ out.status = "raised"
       /\ out.exc = "ZeroDivisionError"
       /\ out.sinks = <<>>
       /\ files = [p \in {OUT_MD} |-> Some(OldContent)]

C14_Witness ==
    /\ FormatterRaised
    /\ call.egress = PyStr(OUT_MD)
    /\ Len(out.aggregated) = 1
    /\ Len(out.aggregated[1]) = 2
    /\ out.aggregated[1][1].k = README_MD
    /\ out.aggregated[1][2].k = <<"a", ".", "m", "d">>
    /\ out.status = "raised"
    /\ file_at(files, OUT_MD) = Some(OldContent)

\* the bulleted bold links of the lines the markdown string was made of
IsLinkLine(line) == Head(line) = "- **[" /\ line[Len(line)] = ")**"
LinksWritten ==
    LET link_lines == SelectSeq(call.lines, IsLinkLine)
    IN [i \in DOMAIN link_lines |->
           [title |-> SubSeq(link_lines[i], 2, Len(link_lines[i]) - 3),
            url |-> link_lines[i][Len(link_lines[i]) - 1]]]

\* the i-th GET ended with the whole body of a PDF in <title>.pdf
SavedAsPdf(i) ==
    LET title == LinksWritten[i].title
        pdf_path == <<"/", "s", "/">>
                       \o (IF title = <<"t">> THEN <<"t">> ELSE <<"t", "_">>)
                       \o <<".", "p", "d", "f">>
    IN \E w \in DOMAIN out.writes :
          /\ out.writes[w].get = i
          /\ out.writes[w].path = pdf_path
          /\ out.writes[w].content = <<"%PDF", "x">>

RECURSIVE UrlsNotSaved(_)
UrlsNotSaved(n) ==
    IF n = 0 THEN <<>>
    ELSE UrlsNotSaved(n - 1)
            \o (IF SavedAsPdf(n) THEN <<>> ELSE <<LinksWritten[n].url>>)

PassesKeysFilt(k) ==
    \/ call.keys_filt = "all"
    \/ call.keys_filt = "py" /\ Len(k) >= 3
          /\ SubSeq(k, Len(k) - 2, Len(k)) = <<".", "p", "y">>
    \/ call.keys_filt = "md" /\ Len(k) >= 3
          /\ SubSeq(k, Len(k) - 2, Len(k)) = <<".", "m", "d">>

\* C16 as stated: every key of the store resolve_code_source returns passes
\* keys_filt, whatever the kind of source.
C16_EveryKeyPassesFilter ==
    (Done("resolve_code_source") /\ out.status = "returned")
    => \A i \in DOMAIN out.store.items : PassesKeysFilt(out.store.items[i].k)

\* C16 amended: every key of a store enumerated from a directory (a directory
\* path, a package, a remote repository) passes keys_filt; an explicit mapping
\* comes back with all its keys and the store of a single-file module holds
\* the name of that file, whatever keys_filt is.
C16_DirectoryKeysPassFilter ==
    (Done("resolve_code_source") /\ out.status = "returned")
    => /\ out.store.obj \in {"cached_keys", "source", "dict"}
       /\ out.store.obj = "cached_keys"
            => \A i \in DOMAIN out.store.items :
                  PassesKeysFilt(out.store.items[i].k)
       /\ out.store.obj = "source"
            => /\ call.code_src.kind = "mapping"
               /\ KeysOf(out.store.items) = KeysOf(call.code_src.store)
       /\ out.store.obj = "dict"
            => /\ call.code_src.imp = "file_module"
               /\ KeysOf(out.store.items) = <<<<"m", ".", "p", "y">>>>

C16_Witness ==
    /\ Done("resolve_code_source")
    /\ out.status = "returned"
    /\ out.store.obj = "cached_keys"
    /\ call.keys_filt = "md"
    /\ KeysOf(call.listing) = <<<<"m", ".", "p", "y">>, <<"a", ".", "m", "d">>>>
    /\ KeysOf(out.store.items) = <<<<"a", ".", "m", "d">>>>

\* the chunks of a chunked call, in index order
ChunksOfCall ==
    chunk_iterable(store_wrap(call.store, call.min_number_of_duplicated_lines,
                              call.max_num_characters, call.exclude),
                   call.chk_size.v)

C19_OverlayValueWins ==
    (/\ CodeAggregated
     /\ ReadmeReturned
     /\ \E i \in DOMAIN ResolvedStore.items :
           ResolvedStore.items[i].k = README_MD)
    => LET agg == out.aggregated[1]
       IN /\ Cardinality({i \in DOMAIN agg : agg[i].k = README_MD}) = 1
          /\ agg[1].k = README_MD
          /\ agg[1].v = call.readme.v

\* C20: for every string that names an existing directory and is not an
\* importable module name, a relative path beginning with '.' included,
\* resolve_code_source raises nothing and returns the filtered, sorted store
\* rooted at the absolute path of the directory, the remote repository not
\* consulted.
C20_DirectoryStringResolves ==
    (/\ Done("resolve_code_source")
     /\ call.code_src.kind = "str"
     /\ call.code_src.isdir
     /\ call.code_src.imp \notin {"file_module", "package", "plain"})
    => /\ out.status = "returned"
       /\ out.store.obj = "cached_keys"
       /\ out.store.rootdir
             = Some(IF Head(call.code_src.name) = "/" THEN call.code_src.name
                    ELSE IF call.code_src.name = <<".">> THEN <<"/", "w">>
                    ELSE <<"/", "w", "/">> \o call.code_src.name)
       /\ \A i \in DOMAIN out.store.items :
             PassesKeysFilt(out.store.items[i].k)
       /\ \A i, j \in DOMAIN out.store.items :
             i < j => str_lt(out.store.items[i].k, out.store.items[j].k)
       /\ "ensure_repo_folder" \notin out.accesses

====
